---- MODULE Spec2Model ----
(***************************************************************************)
(* amdtop (src/src/main.rs): one pass over the lines of amdgpu_gem_info,   *)
(* an accumulator of per-process byte counters, a sort and a report whose  *)
(* byte cells go through FormatBytes.                                      *)
(*                                                                         *)
(* A u64 is held as its base-DIVISOR digits, least significant first, with *)
(* no leading zero digit (<<>> is 0, <<0, 1>> is 1024): the values the     *)
(* program meets (2^40, 2^63, 2^64 - 1) do not fit in 32-bit integers,     *)
(* and FormatBytes divides by DIVISOR anyway.  Text is text:               *)
(* lines, tokens and formatted cells are strings, split, parsed and built  *)
(* character by character.                                                 *)
(***************************************************************************)
EXTENDS Integers, Sequences, FiniteSets, TLC

VARIABLES
    pc,               \* where main is: "open", "read", "header", "rows", "done"; how it ended
                      \* otherwise: "io_error", "panic_accumulate" (main.rs:70-72),
                      \* "panic_sort_key" (main.rs:93), "panic_total" (main.rs:145),
                      \* "panic_index" (main.rs:114); "format" in SpecFmt
    overflow_checks,  \* the build: TRUE panics on u64 overflow (debug), FALSE wraps (release)
    lines_read,       \* the lines of the stream handed to process_line so far, in order
    cur_pid,          \* main.rs:53
    mem_infos,        \* main.rs:52, a function from the keys present to MemInfo records
    mem_infos_sorted, \* main.rs:84
    row,              \* number of elements of mem_infos_sorted the report loop has consumed
    out,              \* the lines printed so far
    fb                \* SpecFmt: the FormatBytes value formatted on its own, and the result

vars == <<pc, overflow_checks, lines_read, cur_pid, mem_infos, mem_infos_sorted, row, out, fb>>

-----------------------------------------------------------------------------
(* Bounds of the model.                                                    *)

\* Lines the stream supplies before it ends or fails.
MaxLines == 3
\* Base-DIVISOR digits of the byte counts SpecFmt formats.
MaxDigits == 5

-----------------------------------------------------------------------------
(* u64 arithmetic on base-DIVISOR digit sequences.                         *)

DIVISOR == 1024

\* u64::MAX = 2^64 - 1 = 15 * 1024^6 + (1024^6 - 1)
U64Max == <<1023, 1023, 1023, 1023, 1023, 1023, 15>>

RECURSIVE Norm(_)
Norm(n) == IF n = <<>> THEN <<>>
           ELSE IF n[Len(n)] = 0 THEN Norm(SubSeq(n, 1, Len(n) - 1))
           ELSE n

Digit(n, i) == IF i <= Len(n) THEN n[i] ELSE 0

\* a <= b, both normalised
RECURSIVE LeqFrom(_, _, _)
LeqFrom(a, b, i) == IF i = 0 THEN TRUE
                    ELSE IF a[i] # b[i] THEN a[i] < b[i]
                    ELSE LeqFrom(a, b, i - 1)
Leq(a, b) == IF Len(a) # Len(b) THEN Len(a) < Len(b) ELSE LeqFrom(a, b, Len(a))

\* n * k + c for a digit sequence n and small k, c (every product stays below 2^31)
RECURSIVE MulAdd(_, _, _)
MulAdd(n, k, c) ==
    IF n = <<>> THEN (IF c = 0 THEN <<>>
                      ELSE <<c % DIVISOR>> \o MulAdd(<<>>, k, c \div DIVISOR))
    ELSE LET x == Head(n) * k + c
         IN  <<x % DIVISOR>> \o MulAdd(Tail(n), k, x \div DIVISOR)

FromInt(k) == MulAdd(<<>>, 1, k)

\* the value of a digit sequence that fits 32 bits
RECURSIVE ToInt(_)
ToInt(n) == IF n = <<>> THEN 0 ELSE Head(n) + DIVISOR * ToInt(Tail(n))

\* a + b, unbounded
RECURSIVE AddCarry(_, _, _)
AddCarry(a, b, c) ==
    IF a = <<>> /\ b = <<>> THEN (IF c = 0 THEN <<>> ELSE <<c>>)
    ELSE LET x == Digit(a, 1) + Digit(b, 1) + c
         IN  <<x % DIVISOR>> \o AddCarry(IF a = <<>> THEN <<>> ELSE Tail(a),
                                         IF b = <<>> THEN <<>> ELSE Tail(b),
                                         x \div DIVISOR)
Add(a, b) == AddCarry(a, b, 0)

\* n mod 2^64: the low 64 bits, which is what a wrapping u64 operation keeps
Wrap64(n) ==
    Norm([i \in 1..(IF Len(n) < Len(U64Max) THEN Len(n) ELSE Len(U64Max)) |->
            IF i = Len(U64Max) THEN n[i] % (U64Max[i] + 1) ELSE n[i]])

IsU64(n) == Leq(n, U64Max)

\* n / b and n % b (integer division) for a small divisor b >= 1
RECURSIVE RemFrom(_, _, _)
RemFrom(n, b, i) == IF i > Len(n) THEN 0
                    ELSE (RemFrom(n, b, i + 1) * DIVISOR + n[i]) % b
DivSmall(n, b) ==
    Norm([i \in 1..Len(n) |-> (RemFrom(n, b, i + 1) * DIVISOR + n[i]) \div b])

\* DIVISOR.pow(n)
Pow(n) == [i \in 1..(n + 1) |-> IF i = n + 1 THEN 1 ELSE 0]

-----------------------------------------------------------------------------
(* Text: str::split_whitespace and str::parse.                             *)

Char(s, i) == SubSeq(s, i, i)

IsWhitespace(c) == c \in {" ", "\t"}

DigitChars == <<"0", "1", "2", "3", "4", "5", "6", "7", "8", "9">>
IsDigit(c) == \E d \in 0..9 : DigitChars[d + 1] = c
DigitVal(c) == CHOOSE d \in 0..9 : DigitChars[d + 1] = c

\* line.split_whitespace(), collected: the maximal runs of non-whitespace characters
RECURSIVE SplitFrom(_, _, _, _)
SplitFrom(s, i, cur, acc) ==
    IF i > Len(s) THEN (IF cur = "" THEN acc ELSE Append(acc, cur))
    ELSE IF IsWhitespace(Char(s, i))
         THEN SplitFrom(s, i + 1, "", IF cur = "" THEN acc ELSE Append(acc, cur))
         ELSE SplitFrom(s, i + 1, cur \o Char(s, i), acc)
split_whitespace(line) == SplitFrom(line, 1, "", <<>>)

I32Max == 2147483647

\* str::parse::<i32>: an optional sign, then one or more decimal digits; a value
\* outside i32 is an error.  Negative values are accumulated downwards, as core does.
RECURSIVE ParseI32From(_, _, _, _)
ParseI32From(s, i, neg, acc) ==
    IF i > Len(s) THEN [ok |-> TRUE, val |-> acc]
    ELSE IF ~IsDigit(Char(s, i)) THEN [ok |-> FALSE, val |-> 0]
    ELSE LET d == DigitVal(Char(s, i))
         IN  IF neg
             THEN IF acc < (-I32Max - 1 + d) \div 10 + (IF (-I32Max - 1 + d) % 10 = 0 THEN 0 ELSE 1)
                  THEN [ok |-> FALSE, val |-> 0]
                  ELSE ParseI32From(s, i + 1, neg, acc * 10 - d)
             ELSE IF acc > (I32Max - d) \div 10
                  THEN [ok |-> FALSE, val |-> 0]
                  ELSE ParseI32From(s, i + 1, neg, acc * 10 + d)
parse_i32(s) ==
    IF s = "" THEN [ok |-> FALSE, val |-> 0]
    ELSE IF Char(s, 1) \in {"+", "-"}
         THEN IF Len(s) = 1 THEN [ok |-> FALSE, val |-> 0]
              ELSE ParseI32From(s, 2, Char(s, 1) = "-", 0)
         ELSE ParseI32From(s, 1, FALSE, 0)

\* str::parse::<u64>: an optional "+", then one or more decimal digits; "-" is an
\* invalid digit and a value above u64::MAX is an error.
RECURSIVE ParseU64From(_, _, _)
ParseU64From(s, i, acc) ==
    IF i > Len(s) THEN [ok |-> TRUE, val |-> acc]
    ELSE IF ~IsDigit(Char(s, i)) THEN [ok |-> FALSE, val |-> <<>>]
    ELSE LET next == MulAdd(acc, 10, DigitVal(Char(s, i)))
         IN  IF ~IsU64(next) THEN [ok |-> FALSE, val |-> <<>>]
             ELSE ParseU64From(s, i + 1, next)
parse_u64(s) ==
    IF s = "" THEN [ok |-> FALSE, val |-> <<>>]
    ELSE IF Char(s, 1) = "+"
         THEN IF Len(s) = 1 THEN [ok |-> FALSE, val |-> <<>>]
              ELSE ParseU64From(s, 2, <<>>)
         ELSE ParseU64From(s, 1, <<>>)

-----------------------------------------------------------------------------
(* The integer logarithm and FormatBytes (main.rs:17-38, 95-116).          *)

\* LogLoop with the test r > base in place of r >= base
RECURSIVE LogLoop_StrictTest(_, _, _)
LogLoop_StrictTest(r, base, n) ==
    IF ~Leq(r, FromInt(base)) THEN LogLoop_StrictTest(DivSmall(r, base), base, n + 1) ELSE n

RECURSIVE LogLoop(_, _, _)
LogLoop(r, base, n) ==
    IF Leq(FromInt(base), r) THEN LogLoop(DivSmall(r, base), base, n + 1) ELSE n

\* x is a digit sequence, base a small integer
checked_log(x, base) ==
    IF x = <<>> \/ base <= 1 THEN [some |-> FALSE, n |-> 0]
    ELSE [some |-> TRUE, n |-> LogLoop(x, base, 0)]

log(x, base) ==
    LET c == checked_log(x, base) IN IF c.some THEN c.n ELSE 0

SUFFIXES == <<"", "KiB", "MiB", "GiB">>

Min(a, b) == IF a <= b THEN a ELSE b

\* format!("{:.2}", bytes as f64 / DIVISOR.pow(divisions) as f64).  It is reached
\* with bytes < DIVISOR^4 < 2^53 only, where both conversions to f64 and the
\* division by a power of two are exact; {:.2} then rounds the exact quotient to
\* hundredths, a tie going to the even digit.
Fixed2(bytes, divisions) ==
    LET t == MulAdd(bytes, 100, 0)
        q == IF Len(t) > divisions THEN SubSeq(t, divisions + 1, Len(t)) ELSE <<>>
        r == Norm(SubSeq(t, 1, Min(divisions, Len(t))))
        twice == MulAdd(r, 2, 0)
        h0 == ToInt(q)
        h == IF twice = Pow(divisions) THEN h0 + (h0 % 2)
             ELSE IF Leq(Pow(divisions), twice) THEN h0 + 1
             ELSE h0
    IN  ToString(h \div 100) \o "." \o DigitChars[(h % 100) \div 10 + 1]
                             \o DigitChars[(h % 10) + 1]

\* <FormatBytes as Display>::fmt: ok = FALSE is the panic of an index out of bounds
FormatBytes(bytes) ==
    IF bytes = <<>> THEN [ok |-> TRUE, text |-> "0"]
    ELSE LET divisions == Min(log(bytes, DIVISOR), Len(SUFFIXES))
         IN  IF divisions + 1 > Len(SUFFIXES)
             THEN [ok |-> FALSE, text |-> ""]
             ELSE [ok |-> TRUE,
                   text |-> Fixed2(bytes, divisions) \o " " \o SUFFIXES[divisions + 1]]

-----------------------------------------------------------------------------
(* The record parser (main.rs:44-78).                                      *)

\* MemInfo::default()
DefaultMemInfo == [pid |-> 0, gtt_bytes |-> <<>>, vram_bytes |-> <<>>, unknown_bytes |-> <<>>]

\* Entry with a fresh value stored on every lookup (insert, not or_default)
Entry_AlwaysDefault(infos, key) == DefaultMemInfo

\* mem_infos.entry(key).or_default()
Entry(infos, key) == IF key \in DOMAIN infos THEN infos[key] ELSE DefaultMemInfo

\* ContextPid with a token that does not parse resetting the context
ContextPid_ResetOnError(token, pid) ==
    LET p == parse_i32(token) IN IF p.ok THEN p.val ELSE 0

\* ContextPid with the context kept once one has been established
ContextPid_FirstWins(token, pid) ==
    LET p == parse_i32(token) IN IF p.ok /\ pid = -1 THEN p.val ELSE pid

\* if let Ok(pid) = pid.parse() { cur_pid = pid; }: the context after "pid <token>"
ContextPid(token, pid) ==
    LET p == parse_i32(token) IN IF p.ok THEN p.val ELSE pid

\* AllocationFields with an absent label read as the empty label
AllocationFields_LabelOptional(segments) ==
    LET none == [some |-> FALSE, bytes |-> <<>>, memory_type |-> ""]
    IN  IF Len(segments) < 2 THEN none
        ELSE LET bytes == parse_u64(segments[2])
             IN  IF ~bytes.ok THEN none
                 ELSE IF Len(segments) < 3 THEN none
                 ELSE [some |-> TRUE, bytes |-> bytes.val,
                       memory_type |-> IF Len(segments) < 4 THEN "" ELSE segments[4]]

\* main.rs:65-67: the byte count and the label of an allocation line, or none when
\* the second token is absent or no u64, or the third or the fourth token is absent
AllocationFields(segments) ==
    LET none == [some |-> FALSE, bytes |-> <<>>, memory_type |-> ""]
    IN  IF Len(segments) < 2 THEN none
        ELSE LET bytes == parse_u64(segments[2])
             IN  IF ~bytes.ok THEN none
                 ELSE IF Len(segments) < 3 THEN none
                 ELSE IF Len(segments) < 4 THEN none
                 ELSE [some |-> TRUE, bytes |-> bytes.val, memory_type |-> segments[4]]

\* CounterOf with the two arms of the match exchanged
CounterOf_ArmsExchanged(memory_type) ==
    CASE memory_type = "VRAM" -> "gtt_bytes"
      [] memory_type = "GTT" -> "vram_bytes"
      [] OTHER -> "unknown_bytes"

\* CounterOf with the label compared without regard to case
CounterOf_IgnoreCase(memory_type) ==
    CASE memory_type \in {"VRAM", "vram"} -> "vram_bytes"
      [] memory_type \in {"GTT", "gtt"} -> "gtt_bytes"
      [] OTHER -> "unknown_bytes"

\* match memory_type { "VRAM" => vram_bytes, "GTT" => gtt_bytes, _ => unknown_bytes }
CounterOf(memory_type) ==
    CASE memory_type = "VRAM" -> "vram_bytes"
      [] memory_type = "GTT" -> "gtt_bytes"
      [] OTHER -> "unknown_bytes"

\* The closure process_line on (cur_pid, mem_infos) = (pid, infos).  ret is what it
\* returns; overflow says that the += passed u64::MAX, and mem_infos is then the
\* wrapped result of a build without overflow checks.
process_line(line, pid, infos) ==
    LET segments == split_whitespace(line)
        none == [cur_pid |-> pid, mem_infos |-> infos, ret |-> "None", overflow |-> FALSE]
    IN  IF Len(segments) < 1 THEN none
        ELSE IF segments[1] = "pid"
        THEN IF Len(segments) < 2 THEN none
             ELSE [cur_pid |-> ContextPid(segments[2], pid), mem_infos |-> infos,
                   ret |-> "Some", overflow |-> FALSE]
        ELSE LET a == AllocationFields(segments)
             IN  IF ~a.some THEN none
                 ELSE LET mem_info == Entry(infos, pid)
                          field == CounterOf(a.memory_type)
                          sum == Add(mem_info[field], a.bytes)
                      IN  [cur_pid |-> pid,
                           mem_infos |-> (pid :> [mem_info EXCEPT ![field] = Wrap64(sum)]) @@ infos,
                           ret |-> "Some", overflow |-> ~IsU64(sum)]

-----------------------------------------------------------------------------
(* main (main.rs:40-152).                                                  *)

\* The lines the stream can supply.
Lines == {
    "pid 42", "pid 0", "pid x", "pid",
    "\t0x1:  1024 byte VRAM NO_CPU",
    "0x2: 1536 byte GTT",
    "0x3: 512 byte CPU",
    "0x4: 2048 byte vram",
    "0x5: 9223372036854775808 byte GTT",
    "0x6: 9223372036854775808 byte VRAM",
    "1024 0x1 VRAM",
    "1024 0x1",
    "0x7: 1024 byte",
    "" }

Init ==
    /\ pc = "open"
    /\ overflow_checks \in BOOLEAN
    /\ lines_read = <<>>
    /\ cur_pid = -1
    /\ mem_infos = <<>>
    /\ mem_infos_sorted = <<>>
    /\ row = 0
    /\ out = <<>>
    /\ fb = <<>>

\* OpenOk with the header printed before the stream is read
OpenOk_HeaderFirst ==
    /\ pc = "open"
    /\ pc' = "read"
    /\ out' = <<[kind |-> "header", cells |-> <<"PID", "PROCESS", "PATH", "TOTAL", "VRAM", "GTT">>]>>
    /\ UNCHANGED <<overflow_checks, lines_read, cur_pid, mem_infos, mem_infos_sorted, row, fb>>

\* read_lines(gem_info_path)? succeeds
OpenOk ==
    /\ pc = "open"
    /\ pc' = "read"
    /\ UNCHANGED <<overflow_checks, lines_read, cur_pid, mem_infos, mem_infos_sorted, row, out, fb>>

\* read_lines(gem_info_path)? fails: main returns the error
OpenErr ==
    /\ pc = "open"
    /\ pc' = "io_error"
    /\ UNCHANGED <<overflow_checks, lines_read, cur_pid, mem_infos, mem_infos_sorted, row, out, fb>>

\* one turn of the line loop with a line read: process_line(&line?)
ReadLine ==
    /\ pc = "read"
    /\ Len(lines_read) < MaxLines
    /\ \E line \in Lines :
         LET r == process_line(line, cur_pid, mem_infos)
         IN  /\ lines_read' = Append(lines_read, line)
             /\ IF r.overflow /\ overflow_checks
                THEN /\ pc' = "panic_accumulate"
                     /\ UNCHANGED <<cur_pid, mem_infos>>
                ELSE /\ pc' = pc
                     /\ cur_pid' = r.cur_pid
                     /\ mem_infos' = r.mem_infos
    /\ UNCHANGED <<overflow_checks, mem_infos_sorted, row, out, fb>>

\* one turn of the line loop with a failed read: line? returns the error
ReadErr ==
    /\ pc = "read"
    /\ pc' = "io_error"
    /\ UNCHANGED <<overflow_checks, lines_read, cur_pid, mem_infos, mem_infos_sorted, row, out, fb>>

\* HashMap::iter visits the entries in an order the program does not control
IterationOrders(infos) ==
    {o \in [1..Cardinality(DOMAIN infos) -> DOMAIN infos] :
        \A i, j \in DOMAIN o : i # j => o[i] # o[j]}

\* Collect with the elements copied as stored, the pid not taken from the key
Collect_NoRewrite(infos, order) == [i \in DOMAIN order |-> infos[order[i]]]

\* .map(|(pid, mem_info)| MemInfo { pid: *pid, ..*mem_info }).collect()
Collect(infos, order) == [i \in DOMAIN order |-> [infos[order[i]] EXCEPT !.pid = order[i]]]

\* mem_info.vram_bytes + mem_info.gtt_bytes (main.rs:93 and main.rs:145)
TotalBytes(m) == Add(m.vram_bytes, m.gtt_bytes)
TotalOverflows(m) == ~IsU64(TotalBytes(m))

\* sort_by_key(|m| Reverse(m.vram_bytes + m.gtt_bytes)): a stable sort, the larger
\* key first; the key is the wrapped sum in a build without overflow checks
RECURSIVE InsertByKey(_, _, _)
InsertByKey(sorted, e, i) ==
    IF i > Len(sorted) THEN Append(sorted, e)
    ELSE IF ~Leq(Wrap64(TotalBytes(e)), Wrap64(TotalBytes(sorted[i])))
         THEN SubSeq(sorted, 1, i - 1) \o <<e>> \o SubSeq(sorted, i, Len(sorted))
         ELSE InsertByKey(sorted, e, i + 1)
\* sort_by_key without the Reverse: the smaller key first
RECURSIVE InsertAscending(_, _, _)
InsertAscending(sorted, e, i) ==
    IF i > Len(sorted) THEN Append(sorted, e)
    ELSE IF ~Leq(Wrap64(TotalBytes(sorted[i])), Wrap64(TotalBytes(e)))
         THEN SubSeq(sorted, 1, i - 1) \o <<e>> \o SubSeq(sorted, i, Len(sorted))
         ELSE InsertAscending(sorted, e, i + 1)
RECURSIVE sort_by_key_NoReverse(_)
sort_by_key_NoReverse(v) ==
    IF v = <<>> THEN <<>>
    ELSE InsertAscending(sort_by_key_NoReverse(SubSeq(v, 1, Len(v) - 1)), v[Len(v)], 1)

RECURSIVE sort_by_key(_)
sort_by_key(v) ==
    IF v = <<>> THEN <<>>
    ELSE InsertByKey(sort_by_key(SubSeq(v, 1, Len(v) - 1)), v[Len(v)], 1)

\* The line loop ends (main.rs:80) and the entries are collected and sorted
\* (main.rs:84-93).  The key closure runs only when there are two elements or more.
EndOfStream ==
    /\ pc = "read"
    /\ \E order \in IterationOrders(mem_infos) :
         LET v == Collect(mem_infos, order)
         IN  IF overflow_checks /\ Len(v) >= 2 /\ \E i \in DOMAIN v : TotalOverflows(v[i])
             THEN pc' = "panic_sort_key" /\ UNCHANGED mem_infos_sorted
             ELSE pc' = "header" /\ mem_infos_sorted' = sort_by_key(v)
    /\ UNCHANGED <<overflow_checks, lines_read, cur_pid, mem_infos, row, out, fb>>

HeaderLine == [kind |-> "header", cells |-> <<"PID", "PROCESS", "PATH", "TOTAL", "VRAM", "GTT">>]
RuleLine == [kind |-> "rule", cells |-> <<>>]

\* the two println! of main.rs:118-123
PrintHeader ==
    /\ pc = "header"
    /\ out' = out \o <<HeaderLine, RuleLine>>
    /\ pc' = "rows"
    /\ UNCHANGED <<overflow_checks, lines_read, cur_pid, mem_infos, mem_infos_sorted, row, fb>>

\* if mem_info.pid == 0 { continue; }
Skipped(m) == m.pid = 0

\* One turn of the report loop (main.rs:125-149).  The cells of a row are its PID and
\* the three FormatBytes texts; PROCESS and PATH come from /proc and are left out.
\* A row is printed whole or, when an argument overflows or FormatBytes panics, not
\* at all.
ReportRow ==
    /\ pc = "rows"
    /\ row < Len(mem_infos_sorted)
    /\ LET mem_info == mem_infos_sorted[row + 1]
           total == FormatBytes(Wrap64(TotalBytes(mem_info)))
           vram == FormatBytes(mem_info.vram_bytes)
           gtt == FormatBytes(mem_info.gtt_bytes)
       IN  IF Skipped(mem_info)
           THEN pc' = pc /\ row' = row + 1 /\ out' = out
           ELSE IF overflow_checks /\ TotalOverflows(mem_info)
           THEN pc' = "panic_total" /\ row' = row /\ out' = out
           ELSE IF ~total.ok \/ ~vram.ok \/ ~gtt.ok
           THEN pc' = "panic_index" /\ row' = row /\ out' = out
           ELSE /\ pc' = pc
                /\ row' = row + 1
                /\ out' = Append(out, [kind |-> "row",
                                       cells |-> <<ToString(mem_info.pid), total.text,
                                                   vram.text, gtt.text>>])
    /\ UNCHANGED <<overflow_checks, lines_read, cur_pid, mem_infos, mem_infos_sorted, fb>>

\* the report loop ends and main returns Ok(())
Finish ==
    /\ pc = "rows"
    /\ row = Len(mem_infos_sorted)
    /\ pc' = "done"
    /\ UNCHANGED <<overflow_checks, lines_read, cur_pid, mem_infos, mem_infos_sorted, row, out, fb>>

Next ==
    \/ OpenOk
    \/ OpenErr
    \/ ReadLine
    \/ ReadErr
    \/ EndOfStream
    \/ PrintHeader
    \/ ReportRow
    \/ Finish

Spec == Init /\ [][Next]_vars
-----------------------------------------------------------------------------
(* FormatBytes on its own: the byte count is drawn from FmtInputs and      *)
(* formatted once.                                                         *)

FmtDigits == {0, 1, 512, 1023}

\* every u64 of at most MaxDigits base-DIVISOR digits drawn from FmtDigits, and the
\* two largest values of interest, 2^63 and u64::MAX
FmtInputs ==
    {n \in UNION {[1..k -> FmtDigits] : k \in 0..MaxDigits} : n = Norm(n) /\ IsU64(n)}
        \cup {<<0, 0, 0, 0, 0, 0, 8>>, U64Max}

FmtInit ==
    /\ pc = "format"
    /\ overflow_checks = FALSE
    /\ lines_read = <<>>
    /\ cur_pid = -1
    /\ mem_infos = <<>>
    /\ mem_infos_sorted = <<>>
    /\ row = 0
    /\ out = <<>>
    /\ fb \in {[bytes |-> b, done |-> FALSE, ok |-> TRUE, text |-> ""] : b \in FmtInputs}

\* format!("{}", FormatBytes::new(fb.bytes))
Format ==
    /\ pc = "format"
    /\ ~fb.done
    /\ LET r == FormatBytes(fb.bytes)
       IN  fb' = [bytes |-> fb.bytes, done |-> TRUE, ok |-> r.ok, text |-> r.text]
    /\ UNCHANGED <<pc, overflow_checks, lines_read, cur_pid, mem_infos, mem_infos_sorted, row, out>>

FmtNext == Format

SpecFmt == FmtInit /\ [][FmtNext]_vars

-----------------------------------------------------------------------------
(* checked_log and log, one turn of the while loop at a time               *)
(* (main.rs:17-38).  pc is the position in the function; fb holds the       *)
(* arguments x and base, the locals r and n, and the value log returns.     *)

\* Base-DIVISOR digits of the arguments x SpecLog starts from.
LogDigits == 3

\* the values of FmtInputs of at most LogDigits digits, and 2^63 and u64::MAX
LogInputs ==
    {x \in FmtInputs : Len(x) <= LogDigits} \cup {<<0, 0, 0, 0, 0, 0, 8>>, U64Max}

LogBases == {0, 1, 2, 3, DIVISOR}

LogInit ==
    /\ pc = "log_call"
    /\ overflow_checks = FALSE
    /\ lines_read = <<>>
    /\ cur_pid = -1
    /\ mem_infos = <<>>
    /\ mem_infos_sorted = <<>>
    /\ row = 0
    /\ out = <<>>
    /\ fb \in {[x |-> x, base |-> base, r |-> <<>>, n |-> 0, result |-> 0] :
                  x \in LogInputs, base \in LogBases}

\* LogEnter with only the base 1 rejected
LogEnter_RejectOneOnly ==
    /\ pc = "log_call"
    /\ IF fb.x = <<>> \/ fb.base = 1
       THEN pc' = "log_return" /\ fb' = [fb EXCEPT !.result = 0]
       ELSE pc' = "log_loop" /\ fb' = [fb EXCEPT !.r = fb.x, !.n = 0]
    /\ UNCHANGED <<overflow_checks, lines_read, cur_pid, mem_infos, mem_infos_sorted, row, out>>

\* if x <= 0 || base <= 1 { None }, which log turns into 0;
\* else { let mut n = 0; let mut r = x; ...
LogEnter ==
    /\ pc = "log_call"
    /\ IF fb.x = <<>> \/ fb.base <= 1
       THEN pc' = "log_return" /\ fb' = [fb EXCEPT !.result = 0]
       ELSE pc' = "log_loop" /\ fb' = [fb EXCEPT !.r = fb.x, !.n = 0]
    /\ UNCHANGED <<overflow_checks, lines_read, cur_pid, mem_infos, mem_infos_sorted, row, out>>

\* while r >= base { r /= base; n += 1; }: one turn; a division by zero panics
LogStep ==
    /\ pc = "log_loop"
    /\ Leq(FromInt(fb.base), fb.r)
    /\ IF fb.base = 0
       THEN pc' = "log_panic" /\ fb' = fb
       ELSE pc' = pc /\ fb' = [fb EXCEPT !.r = DivSmall(fb.r, fb.base), !.n = fb.n + 1]
    /\ UNCHANGED <<overflow_checks, lines_read, cur_pid, mem_infos, mem_infos_sorted, row, out>>

\* the loop test fails: Some(n), which log turns into n
LogExit ==
    /\ pc = "log_loop"
    /\ ~Leq(FromInt(fb.base), fb.r)
    /\ pc' = "log_return"
    /\ fb' = [fb EXCEPT !.result = fb.n]
    /\ UNCHANGED <<overflow_checks, lines_read, cur_pid, mem_infos, mem_infos_sorted, row, out>>

LogNext == LogEnter \/ LogStep \/ LogExit

\* a call that has started runs on until it returns or panics
SpecLog == LogInit /\ [][LogNext]_vars /\ WF_vars(LogNext)

-----------------------------------------------------------------------------
(* Reading the stream as the grammar of the program reads it.              *)

Tokens(line) == split_whitespace(line)

\* "pid <integer> ...": a context line that parses
IsContextLine(line) ==
    /\ Len(Tokens(line)) >= 2
    /\ Tokens(line)[1] = "pid"
    /\ parse_i32(Tokens(line)[2]).ok
ContextOf(line) == parse_i32(Tokens(line)[2]).val

\* "<handle> <bytes> <skip> <label> ...": an allocation line that parses
IsAllocationLine(line) ==
    /\ Len(Tokens(line)) >= 4
    /\ Tokens(line)[1] # "pid"
    /\ parse_u64(Tokens(line)[2]).ok
BytesOf(line) == parse_u64(Tokens(line)[2]).val
LabelOf(line) == Tokens(line)[4]

\* "<bytes> <skip> <label>": the three-token allocation line of the specification
IsThreeTokenAllocation(line) ==
    /\ Len(Tokens(line)) = 3
    /\ parse_u64(Tokens(line)[1]).ok

Last(s) == s[Len(s)]

\* the rows of the report printed so far
Rows == SelectSeq(out, LAMBDA l : l.kind = "row")
RowPid(r) == r.cells[1]

-----------------------------------------------------------------------------
(* C1 *)

\* C1, as stated: after "pid P" and then the three-token line "B S VRAM", read from
\* a fresh state, the accumulator has an entry keyed P with vram_bytes = B.
C1_ThreeTokenLine ==
    (/\ Len(lines_read) = 2
     /\ IsContextLine(lines_read[1])
     /\ IsThreeTokenAllocation(lines_read[2])
     /\ Tokens(lines_read[2])[3] = "VRAM")
    => /\ ContextOf(lines_read[1]) \in DOMAIN mem_infos
       /\ mem_infos[ContextOf(lines_read[1])].vram_bytes
            = parse_u64(Tokens(lines_read[2])[1]).val

\* C1, amended: the allocation line has four tokens, "H B S VRAM", the byte count B
\* being the second one; after "pid P" and then such a line, read from a fresh
\* state, the accumulator has an entry keyed P with vram_bytes = B (1024 after
\* "pid 42" and a line whose second token is 1024), and after "pid P" and the
\* three-token line "B S VRAM" it has no entry at all.
C1_FourTokenLine ==
    /\ (/\ Len(lines_read) = 2
        /\ IsContextLine(lines_read[1])
        /\ IsAllocationLine(lines_read[2])
        /\ LabelOf(lines_read[2]) = "VRAM")
       => /\ ContextOf(lines_read[1]) \in DOMAIN mem_infos
          /\ mem_infos[ContextOf(lines_read[1])].vram_bytes = BytesOf(lines_read[2])
    /\ (/\ Len(lines_read) = 2
        /\ lines_read[1] = "pid 42"
        /\ Tokens(lines_read[2]) = <<"0x1:", "1024", "byte", "VRAM", "NO_CPU">>)
       => /\ DOMAIN mem_infos = {42}
          /\ mem_infos[42].vram_bytes = <<0, 1>>
    /\ (/\ Len(lines_read) = 2
        /\ IsContextLine(lines_read[1])
        /\ IsThreeTokenAllocation(lines_read[2]))
       => DOMAIN mem_infos = {}

C1_Witness ==
    /\ Len(lines_read) = 2
    /\ lines_read[1] = "pid 42"
    /\ IsAllocationLine(lines_read[2])
    /\ LabelOf(lines_read[2]) = "VRAM"
    /\ BytesOf(lines_read[2]) = <<0, 1>>
    /\ 42 \in DOMAIN mem_infos

-----------------------------------------------------------------------------
(* C2 *)

\* no context line has been parsed in the lines read so far
NoContextYet == \A i \in DOMAIN lines_read : ~IsContextLine(lines_read[i])

\* C2, as stated: an allocation line read before any context line that parses is
\* accumulated under the process id -1, and no row of the report shows the process
\* id -1.
C2_SentinelNeverReported ==
    /\ (NoContextYet /\ \E i \in DOMAIN lines_read : IsAllocationLine(lines_read[i])
           /\ pc # "panic_accumulate")
       => DOMAIN mem_infos = {-1}
    /\ \A i \in DOMAIN Rows : RowPid(Rows[i]) # ToString(-1)

-----------------------------------------------------------------------------
(* C3 *)

\* the text ends with the suffix
EndsWith(text, suffix) ==
    /\ Len(text) >= Len(suffix)
    /\ SubSeq(text, Len(text) - Len(suffix) + 1, Len(text)) = suffix

\* C3, as stated: a byte count of 1024^4 or more is formatted without failure, with
\* the suffix "GiB".
C3_ClampedToGiB ==
    (pc = "format" /\ fb.done /\ Leq(Pow(Len(SUFFIXES)), fb.bytes))
    => fb.ok /\ EndsWith(fb.text, " GiB")

-----------------------------------------------------------------------------
(* C4 *)

\* the line loop has ended: every line of the stream has been ingested
StreamIngested ==
    pc \in {"header", "rows", "done", "panic_sort_key", "panic_total", "panic_index"}

\* the sum of vram_bytes over the entries of the accumulator, as a number
RECURSIVE SumVramOver(_, _)
SumVramOver(infos, keys) ==
    IF keys = {} THEN <<>>
    ELSE LET k == CHOOSE x \in keys : TRUE
         IN  Add(infos[k].vram_bytes, SumVramOver(infos, keys \ {k}))
SumVramEntries == SumVramOver(mem_infos, DOMAIN mem_infos)

\* the sum of the byte counts of the allocation lines labelled "VRAM", as a number
RECURSIVE SumVramLines(_)
SumVramLines(lines) ==
    IF lines = <<>> THEN <<>>
    ELSE Add(IF IsAllocationLine(Head(lines)) /\ LabelOf(Head(lines)) = "VRAM"
             THEN BytesOf(Head(lines)) ELSE <<>>,
             SumVramLines(Tail(lines)))

\* C4, as stated: once the whole stream has been ingested, the sum of vram_bytes
\* over all entries equals the sum of the byte counts of the allocation lines
\* labelled "VRAM".
C4_Conservation ==
    StreamIngested => SumVramEntries = SumVramLines(lines_read)

-----------------------------------------------------------------------------
(* C5 *)

\* a malformed line: empty, a bad context line, or an allocation line with an
\* unparsable byte count, no skip field or no label
Malformed(line) ==
    LET t == Tokens(line)
    IN  \/ Len(t) = 0
        \/ t[1] = "pid" /\ (Len(t) < 2 \/ ~parse_i32(t[2]).ok)
        \/ t[1] # "pid" /\ (Len(t) < 2 \/ ~parse_u64(t[2]).ok)
        \/ t[1] # "pid" /\ Len(t) < 3
        \/ t[1] # "pid" /\ Len(t) < 4

WellFormedOnly(lines) == SelectSeq(lines, LAMBDA l : ~Malformed(l))

\* the pass over a whole stream, from a fresh state, in the build at hand
RECURSIVE PassFrom(_, _, _)
PassFrom(lines, i, st) ==
    IF i > Len(lines) \/ st.panicked THEN st
    ELSE LET r == process_line(lines[i], st.cur_pid, st.mem_infos)
         IN  IF r.overflow /\ overflow_checks
             THEN [st EXCEPT !.panicked = TRUE]
             ELSE PassFrom(lines, i + 1, [cur_pid |-> r.cur_pid, mem_infos |-> r.mem_infos,
                                          panicked |-> FALSE])
Pass(lines) == PassFrom(lines, 1, [cur_pid |-> -1, mem_infos |-> <<>>, panicked |-> FALSE])

\* C5: when the pass has ended (the stream is exhausted, or an addition has
\* overflowed in a build that checks it), the accumulator and the current process
\* id are those of the pass over the same lines with the malformed ones removed,
\* and the one pass was aborted exactly if the other is.
C5_MalformedIgnored ==
    pc \in {"header", "panic_accumulate"} =>
        LET f == Pass(WellFormedOnly(lines_read))
        IN  /\ cur_pid = f.cur_pid
            /\ mem_infos = f.mem_infos
            /\ (pc = "panic_accumulate") = f.panicked

C5_Witness ==
    /\ pc = "header"
    /\ Len(lines_read) = 3
    /\ IsContextLine(lines_read[1])
    /\ Malformed(lines_read[2])
    /\ Len(Tokens(lines_read[2])) > 0
    /\ IsAllocationLine(lines_read[3])
    /\ DOMAIN mem_infos = {ContextOf(lines_read[1])}

-----------------------------------------------------------------------------
(* C6 *)

\* this step hands one more line to process_line
ReadsLine == pc = "read" /\ Len(lines_read') = Len(lines_read) + 1

\* C6: a line of fewer than three tokens after the first leaves the accumulator as
\* it was, so it changes no counter and creates no entry.
C6_ShortLineNoBytes ==
    [][(ReadsLine /\ Len(Tokens(Last(lines_read'))) < 4) => mem_infos' = mem_infos]_vars

C6_Witness ==
    /\ pc = "read"
    /\ Len(lines_read) = 2
    /\ IsAllocationLine(lines_read[1])
    /\ Tokens(lines_read[2]) = <<"0x7:", "1024", "byte">>
    /\ DOMAIN mem_infos = {-1}

-----------------------------------------------------------------------------
(* C7 *)

\* C7: a step that ingests an allocation line whose label is neither "VRAM" nor
\* "GTT" adds its byte count (a u64 addition) to unknown_bytes of the entry of the
\* current process id and leaves vram_bytes and gtt_bytes of every entry as they
\* were (zero for the entry the step creates).
C7_UnknownLabel ==
    [][(/\ ReadsLine
        /\ pc' = "read"
        /\ IsAllocationLine(Last(lines_read'))
        /\ LabelOf(Last(lines_read')) \notin {"VRAM", "GTT"})
       => /\ DOMAIN mem_infos' = DOMAIN mem_infos \cup {cur_pid}
          /\ mem_infos'[cur_pid].unknown_bytes
               = Wrap64(Add(Entry(mem_infos, cur_pid).unknown_bytes, BytesOf(Last(lines_read'))))
          /\ \A k \in DOMAIN mem_infos' :
               /\ mem_infos'[k].vram_bytes = Entry(mem_infos, k).vram_bytes
               /\ mem_infos'[k].gtt_bytes = Entry(mem_infos, k).gtt_bytes]_vars

C7_Witness ==
    /\ Len(lines_read) = 3
    /\ lines_read[1] = "pid 42"
    /\ IsAllocationLine(lines_read[2]) /\ LabelOf(lines_read[2]) = "CPU"
    /\ IsAllocationLine(lines_read[3]) /\ LabelOf(lines_read[3]) = "vram"
    /\ mem_infos[42].unknown_bytes = <<512, 2>>
    /\ mem_infos[42].vram_bytes = <<>>

-----------------------------------------------------------------------------
(* C8 *)

\* the entry a row was printed from
RowEntry(r) == mem_infos[CHOOSE k \in DOMAIN mem_infos : ToString(k) = RowPid(r)]

\* C8: of any two rows of the report, the one printed first has the larger or an
\* equal vram_bytes + gtt_bytes.
C8_RowsDescending ==
    \A i, j \in DOMAIN Rows :
        i < j => Leq(TotalBytes(RowEntry(Rows[j])), TotalBytes(RowEntry(Rows[i])))

C8_Witness ==
    /\ pc = "done"
    /\ Len(Rows) = 2
    /\ TotalBytes(RowEntry(Rows[1])) # TotalBytes(RowEntry(Rows[2]))

-----------------------------------------------------------------------------
(* C9 *)

\* C9: until the line loop has ended nothing is printed, so a run that ends with an
\* I/O error, at the opening or at any line, has printed nothing.
C9_NoPartialReport ==
    pc \in {"open", "read", "io_error"} => out = <<>>

C9_Witness ==
    /\ pc = "io_error"
    /\ Len(lines_read) = 2
    /\ DOMAIN mem_infos # {}

-----------------------------------------------------------------------------
(* C10 *)

\* x * DIVISOR^n for x > 0
Shift(x, n) == [i \in 1..n |-> 0] \o x

RECURSIVE WithoutDot(_)
WithoutDot(t) ==
    IF t = "" THEN ""
    ELSE (IF Char(t, 1) = "." THEN "" ELSE Char(t, 1)) \o WithoutDot(SubSeq(t, 2, Len(t)))

\* the text is "<digits>.<two digits>", and the number it shows is within half a
\* hundredth of bytes / DIVISOR^n
ShowsMagnitude(t, bytes, n) ==
    LET h == parse_i32(WithoutDot(t))
    IN  /\ Len(t) >= 4
        /\ Char(t, Len(t) - 2) = "."
        /\ Len(WithoutDot(t)) = Len(t) - 1
        /\ IsDigit(Char(t, 1))
        /\ h.ok
        /\ Leq(MulAdd(bytes, 200, 0), Shift(FromInt(2 * h.val + 1), n))
        /\ Leq(Shift(FromInt(2 * h.val - 1), n), MulAdd(bytes, 200, 0))

\* C10: 0 is formatted as "0"; a byte count b with 1 <= b < 1024^4 is formatted as
\* the magnitude b / 1024^n to two decimals, a space and the suffix of tier n, n
\* being the largest with 1024^n <= b; 1024 gives "1.00 KiB", 1536 "1.50 KiB" and
\* 1073741824 "1.00 GiB".
C10_TierSelection ==
    (pc = "format" /\ fb.done) =>
        /\ fb.bytes = <<>> => fb.ok /\ fb.text = "0"
        /\ (fb.bytes # <<>> /\ ~Leq(Pow(Len(SUFFIXES)), fb.bytes)) =>
              LET n == CHOOSE k \in 0..(Len(SUFFIXES) - 1) :
                           Leq(Pow(k), fb.bytes) /\ ~Leq(Pow(k + 1), fb.bytes)
                  t == Tokens(fb.text)
              IN  /\ fb.ok
                  /\ Len(t) >= 1
                  /\ fb.text = t[1] \o " " \o SUFFIXES[n + 1]
                  /\ ShowsMagnitude(t[1], fb.bytes, n)
        /\ fb.bytes = <<0, 1>> => fb.text = "1.00 KiB"
        /\ fb.bytes = <<512, 1>> => fb.text = "1.50 KiB"
        /\ fb.bytes = <<0, 0, 0, 1>> => fb.text = "1.00 GiB"

C10_Witness ==
    /\ pc = "format"
    /\ fb.done
    /\ fb.bytes = <<512, 1>>
    /\ fb.text = "1.50 KiB"

-----------------------------------------------------------------------------
(* C11 *)

\* the process id of the last context line that parses, -1 when there is none
RECURSIVE EstablishedContext(_)
EstablishedContext(lines) ==
    IF lines = <<>> THEN -1
    ELSE IF IsContextLine(Last(lines)) THEN ContextOf(Last(lines))
    ELSE EstablishedContext(SubSeq(lines, 1, Len(lines) - 1))

\* "pid" with no second token, or with one that is no integer
IsBadContextLine(line) ==
    /\ Len(Tokens(line)) >= 1
    /\ Tokens(line)[1] = "pid"
    /\ (Len(Tokens(line)) < 2 \/ ~parse_i32(Tokens(line)[2]).ok)

\* C11: a step that ingests a "pid" line whose second token is absent or is no
\* integer leaves the current process id and the accumulator as they were; and an
\* allocation line ingested right after such a line is attributed to the context
\* established before it.
C11_BadContextLine ==
    [][/\ (ReadsLine /\ IsBadContextLine(Last(lines_read')))
          => /\ cur_pid' = cur_pid
             /\ mem_infos' = mem_infos
             /\ pc' = "read"
       /\ (/\ ReadsLine
           /\ pc' = "read"
           /\ Len(lines_read) >= 1
           /\ IsBadContextLine(Last(lines_read))
           /\ IsAllocationLine(Last(lines_read')))
          => LET ctx == EstablishedContext(SubSeq(lines_read, 1, Len(lines_read) - 1))
             IN  /\ ctx \in DOMAIN mem_infos'
                 /\ mem_infos'[ctx] # Entry(mem_infos, ctx)
                 /\ \A k \in DOMAIN mem_infos' \ {ctx} :
                        k \in DOMAIN mem_infos /\ mem_infos'[k] = mem_infos[k]]_vars

C11_Witness ==
    /\ Len(lines_read) = 3
    /\ lines_read[1] = "pid 42"
    /\ IsBadContextLine(lines_read[2])
    /\ IsAllocationLine(lines_read[3])
    /\ cur_pid = 42
    /\ DOMAIN mem_infos = {42}

-----------------------------------------------------------------------------
(* C12 *)

\* C12: after every line ingested the current process id is that of the last
\* context line that parses among the lines read (-1 when there is none), and a
\* step that ingests an allocation line changes the entry keyed by that process id
\* and no other.
C12_MostRecentContext ==
    [][ReadsLine =>
        /\ cur_pid' = EstablishedContext(lines_read')
        /\ (pc' = "read" /\ IsAllocationLine(Last(lines_read')))
           => LET ctx == EstablishedContext(lines_read)
              IN  /\ ctx \in DOMAIN mem_infos'
                  /\ (BytesOf(Last(lines_read')) # <<>>
                        => mem_infos'[ctx] # Entry(mem_infos, ctx))
                  /\ \A k \in DOMAIN mem_infos' \ {ctx} :
                         k \in DOMAIN mem_infos /\ mem_infos'[k] = mem_infos[k]]_vars

C12_Witness ==
    /\ Len(lines_read) = 3
    /\ lines_read[1] = "pid 0"
    /\ lines_read[2] = "pid 42"
    /\ IsAllocationLine(lines_read[3])
    /\ cur_pid = 42
    /\ DOMAIN mem_infos = {42}

-----------------------------------------------------------------------------
(* C13 *)

\* C13: when the report is complete, every process id other than the sentinel -1
\* that has an accumulator entry, 0 included, has exactly one row, showing that id.
C13_OneRowPerProcess ==
    pc = "done" =>
        \A P \in DOMAIN mem_infos \ {-1} :
            Cardinality({i \in DOMAIN Rows : RowPid(Rows[i]) = ToString(P)}) = 1

-----------------------------------------------------------------------------
(* C14 *)

Counters == {"vram_bytes", "gtt_bytes", "unknown_bytes"}

\* C14: for every line ingested, each byte counter of each entry is afterwards
\* greater than or equal to its value before, also when the sum passes 2^64 - 1.
C14_CountersMonotone ==
    [][ReadsLine =>
        \A k \in DOMAIN mem_infos : \A f \in Counters :
            /\ k \in DOMAIN mem_infos'
            /\ Leq(mem_infos[k][f], mem_infos'[k][f])]_vars

-----------------------------------------------------------------------------
(* C15 *)

\* the value of a counter of the entry for a key, zero while there is no entry
CounterAt(infos, key, f) == IF key \in DOMAIN infos THEN infos[key][f] ELSE <<>>

\* the counter a label selects
SelectedBy(label) ==
    IF label = "VRAM" THEN "vram_bytes"
    ELSE IF label = "GTT" THEN "gtt_bytes"
    ELSE "unknown_bytes"

-----------------------------------------------------------------------------
(* C16 *)

\* C16 as stated: every entry of the accumulator has its pid field equal to the
\* key it is stored under.
C16_ProcessIdIsKey == \A k \in DOMAIN mem_infos : mem_infos[k].pid = k

\* C16: every entry of the accumulator has pid 0, the value of MemInfo::default(),
\* whatever its key, and an entry just created has at most the counter the line
\* added to different from zero; the list collected at the end of the pass has one
\* element for each key, with pid equal to the key and the counters of its entry.
C16_DefaultProcessId ==
    [][/\ ReadsLine
          => \A k \in DOMAIN mem_infos' :
                 /\ mem_infos'[k].pid = 0
                 /\ k \notin DOMAIN mem_infos
                      => Cardinality({f \in Counters : mem_infos'[k][f] # <<>>}) <= 1
       /\ (pc = "read" /\ pc' = "header")
          => /\ Len(mem_infos_sorted') = Cardinality(DOMAIN mem_infos)
             /\ \A k \in DOMAIN mem_infos :
                    \E i \in DOMAIN mem_infos_sorted' :
                        /\ mem_infos_sorted'[i].pid = k
                        /\ \A f \in Counters :
                               mem_infos_sorted'[i][f] = mem_infos[k][f]]_vars

C16_Witness ==
    /\ pc = "header"
    /\ DOMAIN mem_infos = {42, -1}
    /\ mem_infos[42].pid = 0
    /\ mem_infos[-1].pid = 0
    /\ {mem_infos_sorted[i].pid : i \in DOMAIN mem_infos_sorted} = {42, -1}

-----------------------------------------------------------------------------
(* C17 *)

\* C17: the accumulator starts empty; a step that ingests a line adds the key of
\* the current process id if the line is an allocation line that parses, and
\* otherwise adds no key; no step removes a key.
C17_EntryIffAllocation ==
    /\ mem_infos = <<>>
    /\ [][/\ ReadsLine
             => DOMAIN mem_infos' =
                    DOMAIN mem_infos \cup
                        (IF IsAllocationLine(Last(lines_read')) THEN {cur_pid} ELSE {})
          /\ ~ReadsLine => DOMAIN mem_infos' = DOMAIN mem_infos]_vars

C17_Witness ==
    /\ pc = "read"
    /\ Len(lines_read) = 3
    /\ IsContextLine(lines_read[1])
    /\ IsAllocationLine(lines_read[2])
    /\ IsContextLine(lines_read[3])
    /\ cur_pid = 0
    /\ DOMAIN mem_infos = {42}

-----------------------------------------------------------------------------
(* C18 *)

\* an allocation line that parses and whose label is neither "VRAM" nor "GTT"
IsOtherAllocation(line) ==
    IsAllocationLine(line) /\ LabelOf(line) \notin {"VRAM", "GTT"}

RECURSIVE JoinTokens(_)
JoinTokens(t) ==
    IF t = <<>> THEN ""
    ELSE IF Len(t) = 1 THEN t[1]
    ELSE t[1] \o " " \o JoinTokens(Tail(t))

\* the line with its byte count replaced
WithBytes(line, b) == JoinTokens([Tokens(line) EXCEPT ![2] = b])

OtherByteCounts == {"512", "9223372036854775808"}

\* the streams that differ from lines only in the byte counts of the allocation
\* lines whose label is neither "VRAM" nor "GTT"
Variants(lines) ==
    LET U == {i \in DOMAIN lines : IsOtherAllocation(lines[i])}
    IN  {[i \in DOMAIN lines |-> IF i \in U THEN WithBytes(lines[i], c[i]) ELSE lines[i]] :
            c \in [U -> OtherByteCounts]}

\* the rows the program prints for an accumulator: PID, TOTAL, VRAM and GTT cells
RowsOf(infos) ==
    {<<ToString(k),
       FormatBytes(Wrap64(TotalBytes(infos[k]))).text,
       FormatBytes(infos[k].vram_bytes).text,
       FormatBytes(infos[k].gtt_bytes).text>> : k \in DOMAIN infos \ {0}}

\* C18: when the report of a stream is complete, every stream that differs from it
\* only in the byte counts of the allocation lines labelled neither "VRAM" nor
\* "GTT" produces a report too, with the same set of rows.
C18_OtherBytesNoInfluence ==
    pc = "done" =>
        \A V \in Variants(lines_read) :
            /\ ~Pass(V).panicked
            /\ RowsOf(Pass(V).mem_infos) = {Rows[i].cells : i \in DOMAIN Rows}

-----------------------------------------------------------------------------
(* C19 *)

\* C19: every call of the integer logarithm returns after finitely many turns of
\* its loop and none panics; with x = 0 or base 0 or 1 the loop is never entered
\* and the value returned is 0; the value returned is that of log.
C19_LogTerminates ==
    /\ <>(pc = "log_return")
    /\ [](pc # "log_panic")
    /\ []((fb.x = <<>> \/ fb.base \in {0, 1})
            => /\ pc # "log_loop"
               /\ pc = "log_return" => fb.result = 0)
    /\ [](pc = "log_return" => fb.result = log(fb.x, fb.base))

C19_Witness ==
    /\ pc = "log_return"
    /\ fb.x = U64Max
    /\ fb.base = 2
    /\ fb.n = 63
    /\ fb.result = 63

====
